---- MODULE Spec2Model ----
(***************************************************************************)
(* Contact-builder document pipeline: extraction, multi-source enrichment, *)
(* duplicate detection and contact storage.                                *)
(*                                                                         *)
(* Strings that JavaScript treats as falsy (undefined, null, "") are all   *)
(* written NULL.  Scores are kept as integers, 700 standing for 1.0, so    *)
(* that 0.2/7 (one covered field) is the integer 20.                       *)
(***************************************************************************)
EXTENDS Integers, Sequences, FiniteSets, TLC

VARIABLES
    variant,     \* which enrichContact is linked: "core" (server/enrichment.ts) or "ext"
    eRaw,        \* enrichContact: its extractedData argument
    eResp,       \* enrichContact: what each external lookup answers in this call
    ePc,         \* enrichContact: position in the function body
    eSt,         \* enrichContact: locals allData, sources, githubUsername
    eOut,        \* enrichContact: the returned EnrichedContactData
    eScore,      \* the confidenceScore the pipeline derives from eOut, with or without hfKey
    dedupeCall,  \* deduplicateContactData: arguments, loop position, requests made, result
    lookupCall,  \* one source lookup: the source, what its requests meet, position, result
    apiKeyRows,  \* api_keys table, row by row, as the /api/api-keys handlers write it
    nextKeyId,   \* the next api_keys id the database hands out
    keyPosts,    \* POST /api/api-keys: the requests being served, each with its position
    apiKeys,     \* api_keys table as a run reads it: user -> services with an 'api_key' row
    documents,   \* documents table: document id -> row
    contacts,    \* contacts table: the rows, in insertion order
    nextId,      \* the next contact id the database hands out
    runs         \* processDocumentExtraction: one activation per uploaded document

evars == <<variant, eRaw, eResp, ePc, eSt, eOut, eScore, dedupeCall, lookupCall,
           apiKeyRows, nextKeyId, keyPosts>>

pvars == <<apiKeys, documents, contacts, nextId, runs>>

vars == <<variant, eRaw, eResp, ePc, eSt, eOut, eScore, dedupeCall, lookupCall,
          apiKeyRows, nextKeyId, keyPosts,
          apiKeys, documents, contacts, nextId, runs>>

-----------------------------------------------------------------------------
(* Bounds *)

MaxSkills == 2
MaxEdu == 1
MaxRuns == 2
MaxExisting == 3
MaxPosts == 2

-----------------------------------------------------------------------------
(* Values *)

NULL == "null"

ScalarFields == {"name", "email", "phone", "company", "title", "location", "bio"}

UrlFields == {"websiteUrl", "githubUrl", "linkedinUrl", "orcidUrl"}

ListFields == {"skills", "education"}

SeqsUpTo(S, n) == UNION {[1..k -> S] : k \in 0..n}

Range(s) == {s[i] : i \in 1..Len(s)}

NoDup(s) == \A i, j \in 1..Len(s) : i # j => s[i] # s[j]

\* JavaScript a || b on strings
Or(a, b) == IF a # NULL THEN a ELSE b

\* Array.from(new Set(s)): first occurrences, in order
RECURSIVE Dedup(_)
Dedup(s) ==
    IF s = <<>> THEN <<>>
    ELSE LET init == Dedup(SubSeq(s, 1, Len(s) - 1))
             last == s[Len(s)]
         IN IF last \in Range(init) THEN init ELSE Append(init, last)

\* Array.prototype.filter(s => s.verified).length
RECURSIVE CountVerified(_)
CountVerified(srcs) ==
    IF srcs = <<>> THEN 0
    ELSE (IF Head(srcs).verified THEN 1 ELSE 0) + CountVerified(Tail(srcs))

Min(a, b) == IF a <= b THEN a ELSE b

-----------------------------------------------------------------------------
(* server/enrichment.ts: identifier resolution *)

GitHubCanon == "https://github.com/jane"
GitHubDeep == "github.com/jane/repos"
GitLabUrl == "https://gitlab.com/jane"
OrcidCanon == "https://orcid.org/0000-0001-2345-6789"
OrcidHttp == "http://orcid.org/0000-0001-2345-6789/works"
OrcidId == "0000-0001-2345-6789"

\* url.match(/github\.com\/([^\/]+)/)
extractGitHubUsername(url) ==
    IF url \in {GitHubCanon, GitHubDeep} THEN "jane" ELSE NULL

\* url.match(/orcid\.org\/(\d{4}-\d{4}-\d{4}-\d{3}[0-9X])/)
extractORCIDId(url) ==
    IF url \in {OrcidCanon, OrcidHttp} THEN OrcidId ELSE NULL

-----------------------------------------------------------------------------
(* server/enrichment.ts: enrichContact and calculateConfidenceScore *)

AllFields == ScalarFields \cup UrlFields \cup ListFields

\* EnrichedContactData; "keys" lists the properties the object really has
EnrichedFields == AllFields \cup {"sources", "confidenceScore", "keys"}

NameFields == {"name", "bio", "location", "websiteUrl"}

GhFields == {"name", "email", "company", "location", "bio", "websiteUrl"}

\* githubUsername as resolved at the head of enrichContact
GitHubUsername(raw, resp) ==
    LET u == extractGitHubUsername(raw.githubUrl)
    IN IF u = NULL /\ raw.email # NULL THEN resp.ghSearch ELSE u

\* orcidId as resolved before the ORCID block
ORCIDId(raw, resp) ==
    LET o == extractORCIDId(raw.orcidUrl)
    IN IF o = NULL /\ raw.name # NULL THEN resp.orcidSearch ELSE o

SourceEntry(src, url) == [source |-> src, url |-> url, verified |-> TRUE]

\* the two arrays joined without the Set
MergeSkillsConcat(skills, githubSkills) == skills \o githubSkills

\* the unioned skills array after the GitHub record is merged
MergeSkills(skills, githubSkills) == Dedup(skills \o githubSkills)

\* a fill in which the source's value wins
FillLast(old, new) == Or(new, old)

\* how one scalar of allData takes a source's value
Fill(old, new) == Or(old, new)

GitHubStep(st, raw, resp) ==
    LET username == GitHubUsername(raw, resp)
        g == resp.gh
        a == st.allData
    IN IF username # NULL /\ g.found
       THEN [st EXCEPT
               !.githubUsername = username,
               !.sources = Append(@, SourceEntry("github", g.url)),
               !.keys = @ \cup GhFields \cup {"githubUrl", "skills"},
               !.allData = [a EXCEPT
                   !.name = Fill(@, g.name),
                   !.email = Fill(@, g.email),
                   !.company = Fill(@, g.company),
                   !.location = Fill(@, g.location),
                   !.bio = Fill(@, g.bio),
                   !.websiteUrl = Fill(@, g.websiteUrl),
                   !.githubUrl = g.url,
                   !.skills = MergeSkills(a.skills, g.skills)]]
       ELSE [st EXCEPT !.githubUsername = username]

\* an ORCID block that records the lookup in sources even when it returned null
OrcidStepPushesMiss(st, raw, resp) ==
    LET orcidId == ORCIDId(raw, resp)
        o == resp.orcid
    IN IF orcidId # NULL /\ o.found
       THEN [st EXCEPT
               !.sources = Append(@, SourceEntry("orcid", OrcidCanon)),
               !.keys = @ \cup {"name", "bio", "orcidUrl", "education"},
               !.allData = [@ EXCEPT
                   !.name = Fill(@, o.name),
                   !.bio = Fill(@, o.bio),
                   !.orcidUrl = OrcidCanon,
                   !.education = @ \o o.educations]]
       ELSE IF orcidId # NULL
       THEN [st EXCEPT !.sources = Append(@, SourceEntry("orcid", NULL))]
       ELSE st

OrcidStep(st, raw, resp) ==
    LET orcidId == ORCIDId(raw, resp)
        o == resp.orcid
        a == st.allData
        withEmp == IF Len(o.employments) > 0
                   THEN [a EXCEPT
                           !.company = Fill(@, o.employments[1].organization),
                           !.title = Fill(@, o.employments[1].role)]
                   ELSE a
    IN IF orcidId # NULL /\ o.found
       THEN [st EXCEPT
               !.sources = Append(@, SourceEntry("orcid", OrcidCanon)),
               !.keys = @ \cup {"name", "bio", "orcidUrl", "education"}
                          \cup (IF Len(o.employments) > 0 THEN {"company", "title"} ELSE {}),
               !.allData = [withEmp EXCEPT
                   !.name = Fill(@, o.name),
                   !.bio = Fill(@, o.bio),
                   !.orcidUrl = OrcidCanon,
                   !.education = a.education \o o.educations]]
       ELSE st

StackExchangeStep(st, raw, resp) ==
    LET r == resp.se
    IN IF raw.name # NULL /\ r.found
       THEN [st EXCEPT
               !.sources = Append(@, SourceEntry("stackoverflow", r.url)),
               !.keys = @ \cup NameFields,
               !.allData = [@ EXCEPT
                   !.name = Fill(@, r.name),
                   !.bio = Fill(@, r.bio),
                   !.location = Fill(@, r.location),
                   !.websiteUrl = Fill(@, r.websiteUrl)]]
       ELSE st

WikidataStep(st, raw, resp) ==
    LET r == resp.wiki
    IN IF raw.name # NULL /\ r.found
       THEN [st EXCEPT
               !.sources = Append(@, SourceEntry("wikidata", r.url)),
               !.keys = @ \cup {"name"},
               !.allData = [@ EXCEPT !.name = Fill(@, r.name)]]
       ELSE st

DevToStep(st, raw, resp) ==
    LET r == resp.devto
    IN IF raw.name # NULL /\ r.found
       THEN [st EXCEPT
               !.sources = Append(@, SourceEntry("devto", r.url)),
               !.keys = @ \cup NameFields,
               !.allData = [@ EXCEPT
                   !.name = Fill(@, r.name),
                   !.bio = Fill(@, r.bio),
                   !.location = Fill(@, r.location),
                   !.websiteUrl = Fill(@, r.websiteUrl)]]
       ELSE st

GitLabStep(st, raw, resp) ==
    LET r == resp.gitlab
    IN IF st.githubUsername # NULL /\ r.found
       THEN [st EXCEPT
               !.sources = Append(@, SourceEntry("gitlab", r.url)),
               !.keys = @ \cup NameFields,
               !.allData = [@ EXCEPT
                   !.name = Fill(@, r.name),
                   !.bio = Fill(@, r.bio),
                   !.location = Fill(@, r.location),
                   !.websiteUrl = Fill(@, r.websiteUrl)]]
       ELSE st

DocumentSource == [source |-> "document", url |-> "uploaded_document", verified |-> FALSE]

ScoreBase == 350
ScoreVerified == 105
ScoreField == 20
ScoreBonus == 35
ScoreMax == 700

\* the score with the final Math.min left out
calculateUnclamped(sources, data) ==
    LET covered == Cardinality({f \in ScalarFields : data[f] # NULL})
        bonus == Cardinality({f \in {"email", "phone", "githubUrl", "linkedinUrl", "orcidUrl"} :
                                data[f] # NULL})
    IN ScoreBase + CountVerified(sources) * ScoreVerified
         + covered * ScoreField + bonus * ScoreBonus

calculateConfidenceScore(sources, data) ==
    LET covered == Cardinality({f \in ScalarFields : data[f] # NULL})
        bonus == Cardinality({f \in {"email", "phone", "githubUrl", "linkedinUrl", "orcidUrl"} :
                                data[f] # NULL})
    IN Min(ScoreBase + CountVerified(sources) * ScoreVerified
             + covered * ScoreField + bonus * ScoreBonus, ScoreMax)

\* a return statement that leaves out the spread of allData
FinishStepNoSpread(st) ==
    LET sources == <<DocumentSource>> \o st.sources
    IN [f \in EnrichedFields |->
          IF f = "sources" THEN sources
          ELSE IF f = "confidenceScore" THEN calculateConfidenceScore(sources, st.allData)
          ELSE IF f = "keys" THEN {"sources", "confidenceScore"}
          ELSE IF f \in ListFields THEN <<>> ELSE NULL]

\* the return statement of enrichContact
FinishStep(st) ==
    LET sources == <<DocumentSource>> \o st.sources
    IN [f \in EnrichedFields |->
          IF f = "sources" THEN sources
          ELSE IF f = "confidenceScore" THEN calculateConfidenceScore(sources, st.allData)
          ELSE IF f = "keys" THEN st.keys \cup {"sources", "confidenceScore"}
          ELSE st.allData[f]]

\* the own keys of an object whose absent properties read as NULL or []
KeysOf(raw) == {f \in AllFields : raw[f] # (IF f \in ListFields THEN <<>> ELSE NULL)}

\* const sources = []; const allData = { ...extractedData }
StartState(raw) ==
    [allData |-> raw, sources |-> <<>>, githubUsername |-> NULL, keys |-> KeysOf(raw)]

\* the lookups with the ORCID block ahead of the GitHub block
StepOrderOrcidFirst(v) ==
    IF v = "core" THEN <<"orcid", "github">>
    ELSE <<"orcid", "github", "stackexchange", "wikidata", "devto", "gitlab">>

\* the lookups of enrichContact in the order the function issues them
StepOrder(v) ==
    IF v = "core" THEN <<"github", "orcid">>
    ELSE <<"github", "orcid", "stackexchange", "wikidata", "devto", "gitlab">>

ApplyStep(name, st, raw, resp) ==
    CASE name = "github" -> GitHubStep(st, raw, resp)
      [] name = "orcid" -> OrcidStep(st, raw, resp)
      [] name = "stackexchange" -> StackExchangeStep(st, raw, resp)
      [] name = "wikidata" -> WikidataStep(st, raw, resp)
      [] name = "devto" -> DevToStep(st, raw, resp)
      [] name = "gitlab" -> GitLabStep(st, raw, resp)

RECURSIVE RunSteps(_, _, _, _)
RunSteps(names, st, raw, resp) ==
    IF names = <<>> THEN st
    ELSE RunSteps(Tail(names), ApplyStep(Head(names), st, raw, resp), raw, resp)

\* the whole call enrichContact(extractedData, githubToken)
enrichContact(v, raw, resp) == FinishStep(RunSteps(StepOrder(v), StartState(raw), raw, resp))

-----------------------------------------------------------------------------
(* The source lookups: enrichContactFromGitHub .. enrichContactFromDevTo *)

Sources == {"github", "orcid", "stackoverflow", "wikidata", "gitlab", "devto"}

\* the requests a lookup makes, in order: "profile" fetches one profile by identifier,
\* "search" returns a list of matches, "entity" an object keyed by the match's id, and
\* "list" the repositories, projects or articles of the profile found
Requests(source) ==
    CASE source = "github" -> <<"profile", "list">>
      [] source = "orcid" -> <<"profile">>
      [] source = "stackoverflow" -> <<"search">>
      [] source = "wikidata" -> <<"search", "entity">>
      [] source = "gitlab" -> <<"search", "list">>
      [] source = "devto" -> <<"profile", "list">>

\* whether the code tests response.ok on its k-th response
TestsOk(source, k) == k = 1 /\ source # "wikidata"

\* what a request can meet: fetch rejects ("exception"), a non-2xx status with a JSON
\* error body ("status") or with a body that is no JSON ("statusText"), a 2xx answer
\* without any match ("empty"), a 2xx answer with the data asked for ("ok")
RequestOutcomes(kind) ==
    IF kind = "search" THEN {"exception", "status", "statusText", "empty", "ok"}
    ELSE {"exception", "status", "statusText", "ok"}

NoLookup == [source |-> "none", outcomes |-> <<>>, k |-> 0, pc |-> "idle", result |-> "none"]

\* a lookup whose await fetch(...) is not covered by the try block
AwaitFetchUnguarded(call) ==
    IF call.outcomes[call.k] = "exception"
    THEN [call EXCEPT !.pc = "returned", !.result = "raised"]
    ELSE [call EXCEPT !.pc = "response"]

\* await fetch(...): a rejection is thrown inside the try block
AwaitFetch(call) ==
    IF call.outcomes[call.k] = "exception"
    THEN [call EXCEPT !.pc = "catch"]
    ELSE [call EXCEPT !.pc = "response"]

\* the statements between one response and the next request or the return
ReadResponse(call) ==
    LET o == call.outcomes[call.k]
        kind == Requests(call.source)[call.k]
        non2xx == o \in {"status", "statusText"}
        next == IF call.k = Len(Requests(call.source))
                THEN [call EXCEPT !.pc = "build"]
                ELSE [call EXCEPT !.pc = "fetch", !.k = call.k + 1]
    IN IF non2xx /\ TestsOk(call.source, call.k)
       THEN \* if (!response.ok) return null
            [call EXCEPT !.pc = "returned", !.result = "null"]
       ELSE IF o = "statusText"
       THEN \* response.json() rejects
            [call EXCEPT !.pc = "catch"]
       ELSE IF kind = "search" /\ o \in {"status", "empty"}
       THEN \* no items / search / users array, or an empty one: return null
            [call EXCEPT !.pc = "returned", !.result = "null"]
       ELSE IF kind = "entity" /\ o = "status"
       THEN \* entityData.entities is undefined: entityData.entities[qId] throws
            [call EXCEPT !.pc = "catch"]
       ELSE \* a list that is no array becomes []
            next

-----------------------------------------------------------------------------
(* What the external services may answer, and what Gemini may extract *)

Pick(fill, f, v) == IF f \in fill THEN v ELSE NULL

GhRecord(fill, skills) ==
    [found |-> TRUE, url |-> GitHubCanon,
     name |-> Pick(fill, "name", "B"), email |-> Pick(fill, "email", "B"),
     company |-> Pick(fill, "company", "B"), location |-> Pick(fill, "location", "B"),
     bio |-> Pick(fill, "bio", "B"), websiteUrl |-> Pick(fill, "websiteUrl", "B"),
     skills |-> skills]

\* a non-2xx answer, or an exception inside enrichContactFromGitHub
GhNotFound == [GhRecord({}, <<>>) EXCEPT !.found = FALSE, !.url = NULL]

OrcidRecord(fill, employments, educations) ==
    [found |-> TRUE, name |-> Pick(fill, "name", "C"), bio |-> Pick(fill, "bio", "C"),
     employments |-> employments, educations |-> educations]

OrcidNotFound == [OrcidRecord({}, <<>>, <<>>) EXCEPT !.found = FALSE]

Employment(org, role) == [organization |-> org, role |-> role]

NameRecord(url, fill, v) ==
    [found |-> TRUE, url |-> url, name |-> Pick(fill, "name", v), bio |-> Pick(fill, "bio", v),
     location |-> Pick(fill, "location", v), websiteUrl |-> Pick(fill, "websiteUrl", v)]

NameNotFound == [NameRecord(NULL, {}, NULL) EXCEPT !.found = FALSE]

SkillNames == {"Go", "Rust"}

EduEntries == {"MIT", "ETH"}

BlankProfile == [f \in AllFields |-> IF f \in ListFields THEN <<>> ELSE NULL]

NoExtResp == [se |-> NameNotFound, wiki |-> NameNotFound, devto |-> NameNotFound,
              gitlab |-> NameNotFound]

Resp(ghSearch, gh, orcidSearch, orcid, ext) ==
    [ghSearch |-> ghSearch, gh |-> gh, orcidSearch |-> orcidSearch, orcid |-> orcid,
     se |-> ext.se, wiki |-> ext.wiki, devto |-> ext.devto, gitlab |-> ext.gitlab]

GhScalarAnswers ==
    {GhNotFound} \cup
    {GhRecord(fill, <<>>) :
        fill \in {{}, GhFields, {"company"}, {"name", "bio", "location"}, {"email", "websiteUrl"}}}

OrcidScalarAnswers ==
    {OrcidNotFound,
     OrcidRecord({}, <<>>, <<>>),
     OrcidRecord({"name", "bio"}, <<Employment("C", "C")>>, <<>>),
     OrcidRecord({"bio"}, <<Employment(NULL, "C")>>, <<>>),
     OrcidRecord({"name"}, <<Employment("C", NULL), Employment("D", "D")>>, <<>>),
     OrcidRecord({}, <<Employment(NULL, NULL), Employment("D", "D")>>, <<>>)}

\* inputs that vary the seven scalar fields
ScalarInputs ==
    {<<[BlankProfile EXCEPT !.name = sc.name, !.email = sc.email, !.phone = sc.phone,
                             !.company = sc.company, !.title = sc.title,
                             !.location = sc.location, !.bio = sc.bio, !.githubUrl = gu],
       Resp(gs, g, os, o, NoExtResp)>> :
        sc \in [ScalarFields -> {NULL, "A"}], gu \in {NULL, GitHubCanon},
        gs \in {NULL, "jane"}, g \in GhScalarAnswers,
        os \in {NULL, OrcidId}, o \in OrcidScalarAnswers}

\* inputs that vary the list-valued fields
ListInputs ==
    {<<[BlankProfile EXCEPT !.name = "A", !.githubUrl = GitHubCanon, !.orcidUrl = OrcidCanon,
                             !.skills = sk, !.education = ed],
       Resp(NULL, g, NULL, o, NoExtResp)>> :
        sk \in SeqsUpTo(SkillNames, MaxSkills), ed \in SeqsUpTo(EduEntries, MaxEdu),
        g \in {GhNotFound} \cup
              {GhRecord({}, gsk) : gsk \in {q \in SeqsUpTo(SkillNames, MaxSkills) : NoDup(q)}},
        o \in {OrcidNotFound} \cup
              {OrcidRecord({}, <<>>, oed) : oed \in SeqsUpTo(EduEntries, MaxEdu)}}

\* inputs that vary the profile URLs
UrlInputs ==
    {<<[BlankProfile EXCEPT !.name = n, !.email = e, !.githubUrl = gu, !.orcidUrl = ou,
                             !.linkedinUrl = lu, !.websiteUrl = wu],
       Resp(gs, g, os, o, NoExtResp)>> :
        n \in {NULL, "A"}, e \in {NULL, "A", "a@b.c"},
        gu \in {NULL, GitHubCanon, GitHubDeep, GitLabUrl},
        ou \in {NULL, OrcidCanon, OrcidHttp}, lu \in {NULL, "L"}, wu \in {NULL, "W"},
        gs \in {NULL, "jane"}, g \in {GhNotFound, GhRecord(GhFields, <<"Go">>)},
        os \in {NULL, OrcidId},
        o \in {OrcidNotFound, OrcidRecord({"name", "bio"}, <<Employment("C", "C")>>, <<"MIT">>)}}

NameAnswers(url, v, part) ==
    {NameNotFound, NameRecord(url, NameFields, v), NameRecord(url, part, v)}

\* inputs that exercise the four further sources of the extended enrichContact
ExtInputs ==
    {<<[BlankProfile EXCEPT !.name = n, !.bio = b, !.location = l, !.githubUrl = gu],
       Resp(NULL, g, NULL, o,
            [se |-> se, wiki |-> wk, devto |-> dv, gitlab |-> gl])>> :
        n \in {NULL, "A"}, b \in {NULL, "A"}, l \in {NULL, "A"}, gu \in {NULL, GitHubCanon},
        g \in {GhNotFound, GhRecord(GhFields, <<>>), GhRecord({"company"}, <<>>)},
        o \in {OrcidNotFound},
        se \in NameAnswers("https://stackoverflow.com/users/1", "D", {"location"}),
        wk \in {NameNotFound, NameRecord("https://www.wikidata.org/wiki/Q1", {"name"}, "E")},
        dv \in NameAnswers("https://dev.to/a", "F", {"bio"}),
        gl \in NameAnswers("https://gitlab.com/jane", "G", {"name"})}

EnrichInputs(v) ==
    IF v = "core" THEN ScalarInputs \cup ListInputs \cup UrlInputs ELSE ExtInputs

-----------------------------------------------------------------------------
(* server/gemini.ts, server/huggingface.ts: the other collaborators *)

\* the four ways generateContent can end: an exception, an empty response.text,
\* text that JSON.parse rejects, or a JSON object
ExtractionOutcomes == {"error", "empty", "unparseable", "json"}

\* an extractor that answers an empty response with an empty profile
extractEmptyAsBlank(outcome, parsed) ==
    [threw |-> outcome \in {"error", "unparseable"},
     data |-> IF outcome = "json" THEN parsed ELSE BlankProfile]

\* extractContactFromDocument: rethrows inside its try block unless JSON was parsed
extractContactFromDocument(outcome, parsed) ==
    [threw |-> outcome # "json", data |-> IF outcome = "json" THEN parsed ELSE BlankProfile]

\* String.prototype.toLowerCase on the values that occur
Lower(v) ==
    CASE v = "Jane Doe" -> "jane doe"
      [] v = "JANE DOE" -> "jane doe"
      [] v = "Unknown" -> "unknown"
      [] v = "A" -> "a"
      [] v = "B" -> "b"
      [] v = "C" -> "c"
      [] OTHER -> v

TextFields == <<"name", "email", "phone", "company", "title", "location">>

\* createContactText: the non-empty parts, joined by ' | ', lower-cased
RECURSIVE JoinParts(_, _)
JoinParts(data, fields) ==
    IF fields = <<>> THEN <<>>
    ELSE (IF data[Head(fields)] # NULL THEN <<Lower(data[Head(fields)])>> ELSE <<>>)
         \o JoinParts(data, Tail(fields))

createContactText(data) == JoinParts(data, TextFields)

DupThreshold == 85

\* a threshold test that also accepts the threshold itself
AtLeastThreshold(similarity) == similarity >= DupThreshold

\* the decision taken on one similarity value
OverThreshold(similarity) == similarity > DupThreshold

\* what the sentence-similarity model returns for two texts, times 100
SimilarityValues(text1, text2) == IF text1 = text2 THEN {100} ELSE {0, 85, 86}

\* a similarity that reads a failed request as a full match
similarityFailureAsMatch(answer) == IF answer.failed THEN 100 ELSE answer.value

\* calculateTextSimilarity: 0 when the request fails or the answer is no array
calculateTextSimilarity(answer) == IF answer.failed THEN 0 ELSE answer.value

SimilarityAnswers(text1, text2) ==
    {[failed |-> TRUE, value |-> 0]} \cup
    {[failed |-> FALSE, value |-> v] : v \in SimilarityValues(text1, text2)}

\* the loop of deduplicateContactData over existingContacts[i..]
RECURSIVE DedupeFrom(_, _, _)
DedupeFrom(existingContacts, answers, i) ==
    IF i > Len(existingContacts)
    THEN [isDuplicate |-> FALSE, duplicateId |-> 0, confidence |-> 100, asked |-> i - 1]
    ELSE LET similarity == calculateTextSimilarity(answers[i])
         IN IF OverThreshold(similarity)
            THEN [isDuplicate |-> TRUE, duplicateId |-> existingContacts[i].id,
                  confidence |-> similarity, asked |-> i]
            ELSE DedupeFrom(existingContacts, answers, i + 1)

\* deduplicateContactData; "asked" counts the similarity requests it made
deduplicateContactData(existingContacts, answers) ==
    IF Len(existingContacts) = 0
    THEN [isDuplicate |-> FALSE, duplicateId |-> 0, confidence |-> 100, asked |-> 0]
    ELSE DedupeFrom(existingContacts, answers, 1)

\* the verdict of the catch block, confidence 0.8
NotDuplicateCaught == [isDuplicate |-> FALSE, duplicateId |-> 0, confidence |-> 80]

\* return { isDuplicate: false, confidence: 1.0 }
NotDuplicate == [isDuplicate |-> FALSE, duplicateId |-> 0, confidence |-> 100]

\* no verdict yet
NoVerdict == [isDuplicate |-> FALSE, duplicateId |-> 0, confidence |-> 0]

\* one activation of deduplicateContactData: i is the loop index, asked the contacts a
\* similarity request was made for, in order
NoCall == [newData |-> BlankProfile, existing |-> <<>>, answers |-> <<>>, pc |-> "idle", i |-> 0,
           asked |-> <<>>, result |-> NoVerdict]

\* a loop body that remembers the match and goes on to the next contact
CompareStepKeepGoing(call) ==
    LET i == call.i
        similarity == calculateTextSimilarity(call.answers[i])
        hit == OverThreshold(similarity)
    IN [call EXCEPT
          !.asked = Append(@, i),
          !.result = IF hit
                     THEN [isDuplicate |-> TRUE, duplicateId |-> call.existing[i].id,
                           confidence |-> similarity]
                     ELSE @,
          !.pc = IF i = Len(call.existing)
                 THEN (IF hit \/ call.result.isDuplicate THEN "returned" ELSE "exhausted")
                 ELSE "loop",
          !.i = i + 1]

\* one pass of the for loop of deduplicateContactData
CompareStep(call) ==
    LET i == call.i
        similarity == calculateTextSimilarity(call.answers[i])
    IN IF OverThreshold(similarity)
       THEN [call EXCEPT
               !.asked = Append(@, i),
               !.result = [isDuplicate |-> TRUE, duplicateId |-> call.existing[i].id,
                           confidence |-> similarity],
               !.pc = "returned"]
       ELSE [call EXCEPT
               !.asked = Append(@, i),
               !.pc = IF i = Len(call.existing) THEN "exhausted" ELSE "loop",
               !.i = i + 1]

ValidEmails == {"jane@x.io", "a@b.c"}

\* /^[^\s@]+@[^\s@]+\.[^\s@]+$/.test(email)
IsValidEmail(email) == email \in ValidEmails

DefaultScore == 595

improveConfidenceScore(enrichedData, sources) ==
    LET covered == Cardinality({f \in ScalarFields : enrichedData[f] # NULL})
        urls == Cardinality({f \in {"githubUrl", "linkedinUrl", "orcidUrl"} :
                               enrichedData[f] # NULL})
    IN Min(ScoreBase + CountVerified(sources) * ScoreVerified + covered * ScoreField
             + (IF enrichedData.email # NULL /\ IsValidEmail(enrichedData.email)
                THEN ScoreBonus ELSE 0)
             + urls * ScoreBonus
             + (IF Len(sources) >= 3 THEN ScoreBonus ELSE 0),
           ScoreMax)

-----------------------------------------------------------------------------
(* server/storage.ts: the rows and the statements of DatabaseStorage *)

Users == {"u1", "u2"}

Runs == 1..MaxRuns

NoDocument == [userId |-> NULL, status |-> "none", extractionProgress |-> 0]

\* createDocument as POST /api/documents/upload calls it
NewDocument(userId) == [userId |-> userId, status |-> "processing", extractionProgress |-> 0]

\* an update that writes the column default 0 when data has no extractionProgress
updateDocumentResetsProgress(docs, id, userId, data) ==
    IF docs[id].userId = userId /\ docs[id].status # "none"
    THEN [docs EXCEPT ![id] =
            [userId |-> @.userId,
             status |-> IF data.status # NULL THEN data.status ELSE @.status,
             extractionProgress |->
                 IF data.extractionProgress >= 0 THEN data.extractionProgress ELSE 0]]
    ELSE docs

\* updateDocument(id, userId, data): the row changes only under its owner's id
updateDocument(docs, id, userId, data) ==
    IF docs[id].userId = userId /\ docs[id].status # "none"
    THEN [docs EXCEPT ![id] =
            [userId |-> @.userId,
             status |-> IF data.status # NULL THEN data.status ELSE @.status,
             extractionProgress |->
                 IF data.extractionProgress >= 0 THEN data.extractionProgress
                 ELSE @.extractionProgress]]
    ELSE docs

Keep == 0 - 1

DocPatch(status, progress) == [status |-> status, extractionProgress |-> progress]

\* a select with the where clause left out
getContactsOfAll(rows, userId) == rows

\* getContacts(userId)
getContacts(rows, userId) == SelectSeq(rows, LAMBDA c : c.userId = userId)

\* getContact(id, userId): the matching rows, at most one
getContact(rows, id, userId) == SelectSeq(rows, LAMBDA c : c.id = id /\ c.userId = userId)

\* the row processDocumentExtraction hands to createContact
NewContact(id, userId, extractedData, enrichedData, confidenceScore) ==
    [id |-> id, userId |-> userId,
     name |-> Or(enrichedData.name, "Unknown"),
     email |-> enrichedData.email, phone |-> enrichedData.phone,
     company |-> enrichedData.company, title |-> enrichedData.title,
     location |-> enrichedData.location, skills |-> enrichedData.skills,
     linkedinUrl |-> enrichedData.linkedinUrl, githubUrl |-> enrichedData.githubUrl,
     websiteUrl |-> enrichedData.websiteUrl, bio |-> enrichedData.bio,
     confidenceScore |-> confidenceScore, sources |-> enrichedData.sources,
     extractedData |-> extractedData, enrichedData |-> enrichedData]

\* { ...existingEnriched, ...enrichedData }
Spread(old, new) ==
    [f \in EnrichedFields |->
        IF f = "keys" THEN old.keys \cup new.keys
        ELSE IF f \in new.keys THEN new[f] ELSE old[f]]

\* const mergedSources = [...existingSources, ...newSources]
MergedSources(existingSources, newSources) == existingSources \o newSources

\* the data object of the merge's updateContact call
MergePatch(existing, enrichedData) ==
    [sources |-> MergedSources(existing.sources, enrichedData.sources),
     enrichedData |-> Spread(existing.enrichedData, enrichedData)]

\* updateContact(id, userId, data) with data = {sources, enrichedData}
updateContact(rows, id, userId, data) ==
    [i \in 1..Len(rows) |->
        IF rows[i].id = id /\ rows[i].userId = userId
        THEN [rows[i] EXCEPT !.sources = data.sources, !.enrichedData = data.enrichedData]
        ELSE rows[i]]

\* updateContact(id, userId, req.body): .set({ ...data }) writes every column the body names
updateContactBody(rows, id, userId, body) ==
    [i \in 1..Len(rows) |->
        IF rows[i].id = id /\ rows[i].userId = userId
        THEN [rows[i] EXCEPT !.userId = IF body.userId # NULL THEN body.userId ELSE @,
                             !.name = IF body.name # NULL THEN body.name ELSE @]
        ELSE rows[i]]

\* deleteContact(id, userId)
deleteContact(rows, id, userId) == SelectSeq(rows, LAMBDA c : ~(c.id = id /\ c.userId = userId))

\* getApiKeyByService(userId, service, keyName): the matching rows; the caller takes
\* the first
getApiKeyByService(rows, userId, service, keyName) ==
    SelectSeq(rows, LAMBDA k : k.userId = userId /\ k.service = service /\ k.keyName = keyName)

\* createApiKey(apiKeyData)
createApiKey(rows, id, apiKeyData) ==
    Append(rows, [id |-> id, userId |-> apiKeyData.userId, service |-> apiKeyData.service,
                  keyName |-> apiKeyData.keyName,
                  encryptedValue |-> apiKeyData.encryptedValue])

\* updateApiKey(id, userId, {encryptedValue, lastValidated})
updateApiKey(rows, id, userId, data) ==
    [i \in 1..Len(rows) |->
        IF rows[i].id = id /\ rows[i].userId = userId
        THEN [rows[i] EXCEPT !.encryptedValue = data.encryptedValue]
        ELSE rows[i]]

\* deleteApiKey(id, userId)
deleteApiKey(rows, id, userId) == SelectSeq(rows, LAMBDA k : ~(k.id = id /\ k.userId = userId))

Posts == 1..MaxPosts

\* a POST /api/api-keys request that has not arrived
NoPost == [pc |-> "idle", userId |-> NULL, service |-> NULL, keyName |-> NULL,
           encryptedValue |-> NULL, existing |-> 0]

NoPosts == [q \in Posts |-> NoPost]

-----------------------------------------------------------------------------
(* server/routes.ts: POST /api/documents/upload and processDocumentExtraction *)

BlankEnriched == FinishStep(StartState(BlankProfile))

\* the locals of one activation; calls lists the collaborators it has invoked and
\* extraction is how the Gemini request ended
IdleRun ==
    [pc |-> "idle", userId |-> NULL, extraction |-> NULL, extractedData |-> BlankProfile,
     enrichedData |-> BlankEnriched, isDuplicate |-> FALSE,
     duplicateId |-> 0, existing |-> <<>>, calls |-> {}, simFailed |-> FALSE, allFailed |-> FALSE,
     created |-> 0, updated |-> 0, headers |-> {}]

\* what Gemini may read from the uploaded documents
JaneDoc == [BlankProfile EXCEPT !.name = "Jane Doe", !.email = "jane@x.io",
                                !.githubUrl = GitHubCanon]

JaneCard == [BlankProfile EXCEPT !.email = "jane@x.io", !.phone = "555", !.company = "Acme"]

PipelineRaws == {JaneDoc, JaneCard}

\* what the enrichment sources may answer during a run
PipelineResps ==
    {Resp(NULL, g, NULL, OrcidNotFound, NoExtResp) :
        g \in {GhNotFound, GhRecord({"company", "bio"}, <<"Go">>)}}

HasKey(userId, service) == service \in apiKeys[userId]

\* the columns of a row that deduplicateContactData reads
ContactView(c) == [f \in {"id"} \cup Range(TextFields) |-> c[f]]

\* the properties of the row that the merge reads
MergeView(c) == [sources |-> c.sources, enrichedData |-> c.enrichedData]

\* no score computed yet
NoScore == [hf |-> FALSE, value |-> 0]

\* let confidenceScore = enrichedData.confidenceScore || 0.85, improved with the hf key
FinalScore(enrichedData, hasHf) ==
    IF hasHf THEN improveConfidenceScore(enrichedData, enrichedData.sources)
    ELSE IF enrichedData.confidenceScore # 0 THEN enrichedData.confidenceScore
    ELSE DefaultScore

\* the headers of the requests to api.github.com: Authorization only with a token
GitHubHeaders(githubToken) ==
    {"Accept", "User-Agent"} \cup (IF githubToken # NULL THEN {"Authorization"} ELSE {})

\* githubKey?.encryptedValue
GitHubToken(userId) == IF HasKey(userId, "github") THEN "token" ELSE NULL

\* a pipeline that throws when the HuggingFace key is missing
AfterEnrichRequiresHf(hfKey) == IF hfKey THEN "dedupe" ELSE "catch"

\* if (hfKey) guards deduplication; without the key control goes on to the score
AfterEnrich(hfKey) == IF hfKey THEN "dedupe" ELSE "create"

\* a statement after the 'completed' update that throws into the catch block
PcAfterCompletedThrows == "catch"

\* where control goes once the 'completed' update has returned
PcAfterCompleted == "done"

\* the locals are gone once the activation has returned
Returned(run) ==
    [IdleRun EXCEPT !.pc = "done", !.userId = run.userId, !.calls = run.calls,
                    !.extraction = run.extraction]

\* POST /api/documents/upload: createDocument, then the activation is started
Upload(r, u) ==
    /\ runs[r].pc = "idle"
    /\ \A q \in Runs : q < r => runs[q].pc # "idle"
    /\ documents' = [documents EXCEPT ![r] = NewDocument(u)]
    /\ runs' = [runs EXCEPT ![r] = [IdleRun EXCEPT !.pc = "start", !.userId = u]]
    /\ UNCHANGED <<apiKeys, contacts, nextId>>

\* updateDocument(processing, 25)
Begin(r) ==
    /\ runs[r].pc = "start"
    /\ documents' = updateDocument(documents, r, runs[r].userId, DocPatch("processing", 25))
    /\ runs' = [runs EXCEPT ![r].pc = "extract"]
    /\ UNCHANGED <<apiKeys, contacts, nextId>>

\* the Gemini key is read and extractContactFromDocument returns or throws;
\* on return updateDocument(50) follows
Extract(r) ==
    /\ runs[r].pc = "extract"
    /\ IF ~HasKey(runs[r].userId, "gemini")
       THEN /\ runs' = [runs EXCEPT ![r].pc = "catch"]
            /\ UNCHANGED documents
       ELSE \E outcome \in ExtractionOutcomes, parsed \in PipelineRaws :
              LET res == extractContactFromDocument(outcome, parsed)
              IN /\ runs' = [runs EXCEPT ![r] =
                        [@ EXCEPT !.calls = @ \cup {"extract"},
                                  !.extraction = outcome,
                                  !.extractedData = res.data,
                                  !.pc = IF res.threw THEN "catch" ELSE "enrich"]]
                 /\ documents' = IF res.threw THEN documents
                                 ELSE updateDocument(documents, r, runs[r].userId,
                                                     DocPatch(NULL, 50))
    /\ UNCHANGED <<apiKeys, contacts, nextId>>

\* the optional keys are read, enrichContact returns, updateDocument(75) follows
Enrich(r) ==
    /\ runs[r].pc = "enrich"
    /\ \E resp \in PipelineResps :
          runs' = [runs EXCEPT ![r] =
              [@ EXCEPT !.calls = @ \cup {"enrich"},
                        !.enrichedData = enrichContact("core", runs[r].extractedData, resp),
                        !.headers = GitHubHeaders(GitHubToken(runs[r].userId)),
                        !.pc = AfterEnrich(HasKey(runs[r].userId, "huggingface"))]]
    /\ documents' = updateDocument(documents, r, runs[r].userId, DocPatch(NULL, 75))
    /\ UNCHANGED <<apiKeys, contacts, nextId>>

\* getContacts(userId) is read and deduplicateContactData decides on that list
Dedupe(r) ==
    /\ runs[r].pc = "dedupe"
    /\ LET existing == [i \in 1..Len(getContacts(contacts, runs[r].userId)) |->
                            ContactView(getContacts(contacts, runs[r].userId)[i])]
           newText == createContactText(runs[r].enrichedData)
           possible(i) == SimilarityAnswers(newText, createContactText(existing[i]))
       IN \E answers \in [1..Len(existing) -> UNION {possible(i) : i \in 1..Len(existing)}] :
             /\ \A i \in 1..Len(existing) : answers[i] \in possible(i)
             /\ LET res == deduplicateContactData(existing, answers)
                IN runs' = [runs EXCEPT ![r] =
                       [@ EXCEPT !.calls = @ \cup {"getContacts", "dedupe"},
                                 !.isDuplicate = res.isDuplicate,
                                 !.duplicateId = res.duplicateId,
                                 !.simFailed = \E i \in 1..res.asked : answers[i].failed,
                                 !.allFailed = /\ Len(existing) > 0
                                               /\ \A i \in 1..Len(existing) :
                                                     answers[i].failed,
                                 !.pc = IF res.isDuplicate /\ res.duplicateId # 0
                                        THEN "getContact" ELSE "create"]]
    /\ UNCHANGED <<apiKeys, documents, contacts, nextId>>

\* const existing = await storage.getContact(duplicateId, userId)
GetContact(r) ==
    /\ runs[r].pc = "getContact"
    /\ LET found == getContact(contacts, runs[r].duplicateId, runs[r].userId)
       IN runs' = [runs EXCEPT ![r] =
              [@ EXCEPT !.calls = @ \cup {"getContact"},
                        !.existing = [i \in 1..Len(found) |-> MergeView(found[i])],
                        !.pc = IF Len(found) > 0 THEN "updateContact" ELSE "complete"]]
    /\ UNCHANGED <<apiKeys, documents, contacts, nextId>>

\* await storage.updateContact(duplicateId, userId, {sources, enrichedData})
UpdateContact(r) ==
    /\ runs[r].pc = "updateContact"
    /\ contacts' = updateContact(contacts, runs[r].duplicateId, runs[r].userId,
                                 MergePatch(runs[r].existing[1], runs[r].enrichedData))
    /\ runs' = [runs EXCEPT ![r] =
           [@ EXCEPT !.calls = @ \cup {"updateContact"},
                     !.updated = Len(getContact(contacts, runs[r].duplicateId, runs[r].userId)),
                     !.pc = "complete"]]
    /\ UNCHANGED <<apiKeys, documents, nextId>>

\* the score is settled and storage.createContact inserts the row
Create(r) ==
    /\ runs[r].pc = "create"
    /\ contacts' = Append(contacts,
           NewContact(nextId, runs[r].userId, runs[r].extractedData, runs[r].enrichedData,
                      FinalScore(runs[r].enrichedData, HasKey(runs[r].userId, "huggingface"))))
    /\ nextId' = nextId + 1
    /\ runs' = [runs EXCEPT ![r] =
           [@ EXCEPT !.calls = @ \cup {"createContact"}, !.created = nextId,
                     !.pc = "complete"]]
    /\ UNCHANGED <<apiKeys, documents>>

\* updateDocument(completed, 100), on either path
Complete(r) ==
    /\ runs[r].pc = "complete"
    /\ documents' = updateDocument(documents, r, runs[r].userId, DocPatch("completed", 100))
    /\ runs' = [runs EXCEPT ![r] = [Returned(@) EXCEPT !.pc = PcAfterCompleted]]
    /\ UNCHANGED <<apiKeys, contacts, nextId>>

\* the catch block: updateDocument(failed)
Catch(r) ==
    /\ runs[r].pc = "catch"
    /\ documents' = updateDocument(documents, r, runs[r].userId, DocPatch("failed", Keep))
    /\ runs' = [runs EXCEPT ![r] = Returned(@)]
    /\ UNCHANGED <<apiKeys, contacts, nextId>>

\* DELETE /api/contacts/:id
DeleteContact(u, id) ==
    /\ Len(getContact(contacts, id, u)) > 0
    /\ contacts' = deleteContact(contacts, id, u)
    /\ UNCHANGED <<apiKeys, documents, nextId, runs>>

KeyChoices == {{}, {"gemini"}, {"gemini", "github"}, {"gemini", "huggingface"}}

\* the contact an earlier, finished run of u1 on JaneDoc has stored
SeedContact(keys) ==
    LET enriched == enrichContact("core", JaneDoc,
                                  Resp(NULL, GhNotFound, NULL, OrcidNotFound, NoExtResp))
    IN NewContact(1, "u1", JaneDoc, enriched, FinalScore(enriched, "huggingface" \in keys))

Init ==
    /\ variant = "core"
    /\ eRaw = BlankProfile
    /\ eResp = Resp(NULL, GhNotFound, NULL, OrcidNotFound, NoExtResp)
    /\ ePc = "done"
    /\ eSt = StartState(BlankProfile)
    /\ eOut = BlankEnriched
    /\ eScore = NoScore
    /\ dedupeCall = NoCall
    /\ lookupCall = NoLookup
    /\ apiKeyRows = <<>>
    /\ nextKeyId = 1
    /\ keyPosts = NoPosts
    /\ \E keys \in KeyChoices :
          /\ apiKeys = [u \in {"u1"} |-> keys]
          /\ contacts \in {<<>>, <<SeedContact(keys)>>}
    /\ nextId = Len(contacts) + 1
    /\ documents = [d \in Runs |-> NoDocument]
    /\ runs = [r \in Runs |-> IdleRun]

Next ==
    \/ \E r \in Runs, u \in DOMAIN apiKeys : Upload(r, u) /\ UNCHANGED evars
    \/ \E r \in Runs : Begin(r) /\ UNCHANGED evars
    \/ \E r \in Runs : Extract(r) /\ UNCHANGED evars
    \/ \E r \in Runs : Enrich(r) /\ UNCHANGED evars
    \/ \E r \in Runs : Dedupe(r) /\ UNCHANGED evars
    \/ \E r \in Runs : GetContact(r) /\ UNCHANGED evars
    \/ \E r \in Runs : UpdateContact(r) /\ UNCHANGED evars
    \/ \E r \in Runs : Create(r) /\ UNCHANGED evars
    \/ \E r \in Runs : Complete(r) /\ UNCHANGED evars
    \/ \E r \in Runs : Catch(r) /\ UNCHANGED evars
    \/ \E u \in DOMAIN apiKeys, id \in 1..(nextId - 1) : DeleteContact(u, id) /\ UNCHANGED evars

Spec == Init /\ [][Next]_vars

-----------------------------------------------------------------------------
(* processDocumentExtraction when a storage call rejects or a lookup never settles *)

\* the positions at which the activation awaits a storage call
StoragePcs ==
    {"start", "extract", "enrich", "dedupe", "getContact", "updateContact", "create",
     "complete", "catch"}

\* the storage call awaited at runs[r].pc rejects: updateDocument (362, 377, 393, 425,
\* 467), getApiKeyByService (368), getContacts (401), getContact (413), updateContact
\* (419) or createContact (447) throws into the catch block; updateDocument in the catch
\* block itself (475) rejects the activation's promise, which nobody awaits
StorageRaises(r) ==
    /\ runs[r].pc \in StoragePcs
    /\ runs' = [runs EXCEPT ![r] =
           IF @.pc = "catch" THEN Returned(@) ELSE [@ EXCEPT !.pc = "catch"]]
    /\ UNCHANGED <<apiKeys, documents, contacts, nextId>>

\* a fetch inside enrichContact never settles: node-fetch is called without a timeout or
\* an abort signal and the lookups are awaited one after the other
LookupHangs(r) ==
    /\ runs[r].pc = "enrich"
    /\ runs' = [runs EXCEPT ![r] = [@ EXCEPT !.calls = @ \cup {"enrich"}, !.pc = "pending"]]
    /\ UNCHANGED <<apiKeys, documents, contacts, nextId>>

\* the next statement of activation r, when what it awaits settles
RunStep(r) ==
    \/ Begin(r)
    \/ Extract(r)
    \/ Enrich(r)
    \/ Dedupe(r)
    \/ GetContact(r)
    \/ UpdateContact(r)
    \/ Create(r)
    \/ Complete(r)
    \/ Catch(r)

NextFaults ==
    \/ Next
    \/ \E r \in Runs : StorageRaises(r) /\ UNCHANGED evars
    \/ \E r \in Runs : LookupHangs(r) /\ UNCHANGED evars

\* the event loop resumes every activation whose awaited promise has settled
SpecFaults ==
    /\ Init
    /\ [][NextFaults]_vars
    /\ \A r \in Runs : WF_vars(RunStep(r) /\ UNCHANGED evars)

-----------------------------------------------------------------------------
(* Two users: the pipeline beside PATCH and DELETE /api/contacts/:id *)

\* the request bodies of PATCH /api/contacts/:id: any JSON object, here with the column
\* userId present or absent and the column name absent
PatchBodies == {[userId |-> v, name |-> NULL] : v \in Users \cup {NULL}}

\* PATCH /api/contacts/:id
PatchContact(u, id, body) ==
    /\ contacts' = updateContactBody(contacts, id, u, body)
    /\ UNCHANGED <<apiKeys, documents, nextId, runs>>

\* the contact an earlier run of u2 has stored for the same person, GitHub record merged
OtherSeedContact ==
    LET enriched == enrichContact("core", JaneDoc,
                        Resp(NULL, GhRecord({"company", "bio"}, <<"Go">>), NULL,
                             OrcidNotFound, NoExtResp))
    IN NewContact(2, "u2", JaneDoc, enriched, FinalScore(enriched, TRUE))

InitTenants ==
    /\ variant = "core"
    /\ eRaw = BlankProfile
    /\ eResp = Resp(NULL, GhNotFound, NULL, OrcidNotFound, NoExtResp)
    /\ ePc = "done"
    /\ eSt = StartState(BlankProfile)
    /\ eOut = BlankEnriched
    /\ eScore = NoScore
    /\ dedupeCall = NoCall
    /\ lookupCall = NoLookup
    /\ apiKeyRows = <<>>
    /\ nextKeyId = 1
    /\ keyPosts = NoPosts
    /\ apiKeys = [u \in Users |-> IF u = "u1" THEN {"gemini", "huggingface"} ELSE {}]
    /\ contacts = <<SeedContact({"gemini", "huggingface"}), OtherSeedContact>>
    /\ nextId = 3
    /\ documents = [d \in Runs |-> NoDocument]
    /\ runs = [r \in Runs |-> IdleRun]

NextTenants ==
    \/ Next
    \/ \E u \in Users, id \in 1..(nextId - 1), body \in PatchBodies :
          PatchContact(u, id, body) /\ UNCHANGED evars

SpecTenants == InitTenants /\ [][NextTenants]_vars

-----------------------------------------------------------------------------
(* The handlers of /api/contacts and /api/api-keys, requests of two users interleaved *)

\* the request bodies of POST /api/contacts: any JSON object, here with the columns
\* userId and name each present or absent
PostBodies == {[userId |-> v, name |-> n] : v \in Users \cup {NULL}, n \in {NULL, "Jane Doe"}}

\* { userId, ...req.body }: a userId in the body replaces the session's; the columns the
\* body leaves out take their defaults
ContactFromBody(id, userId, body) ==
    [NewContact(id, IF body.userId # NULL THEN body.userId ELSE userId,
                BlankProfile, BlankEnriched, 0)
       EXCEPT !.name = body.name, !.sources = <<>>]

\* POST /api/contacts; the insert fails on the NOT NULL column name when the body has none
PostContact(u, body) ==
    /\ nextId <= MaxExisting
    /\ IF body.name = NULL
       THEN UNCHANGED <<contacts, nextId>>
       ELSE /\ contacts' = Append(contacts, ContactFromBody(nextId, u, body))
            /\ nextId' = nextId + 1
    /\ UNCHANGED <<apiKeys, documents, runs>>

\* the request bodies of POST /api/api-keys
KeyBodies ==
    {[service |-> sv, keyName |-> "api_key", encryptedValue |-> v] :
        sv \in {NULL, "gemini", "github"}, v \in {"v1", "v2"}}

kframe == <<variant, eRaw, eResp, ePc, eSt, eOut, eScore, dedupeCall, lookupCall>>

\* POST /api/api-keys up to its first await: the fields are checked and
\* getApiKeyByService is read
PostApiKeyLookup(q, u, body) ==
    /\ keyPosts[q].pc = "idle"
    /\ \A p \in Posts : p < q => keyPosts[p].pc # "idle"
    /\ IF body.service = NULL
       THEN keyPosts' = [keyPosts EXCEPT ![q] = [NoPost EXCEPT !.pc = "done"]]
       ELSE LET found == getApiKeyByService(apiKeyRows, u, body.service, body.keyName)
            IN keyPosts' = [keyPosts EXCEPT ![q] =
                   [pc |-> "save", userId |-> u, service |-> body.service,
                    keyName |-> body.keyName, encryptedValue |-> body.encryptedValue,
                    existing |-> IF Len(found) > 0 THEN found[1].id ELSE 0]]
    /\ UNCHANGED <<apiKeyRows, nextKeyId>>
    /\ UNCHANGED kframe
    /\ UNCHANGED pvars

\* POST /api/api-keys after the read: updateApiKey if a row was found, else createApiKey
PostApiKeySave(q) ==
    /\ keyPosts[q].pc = "save"
    /\ IF keyPosts[q].existing # 0
       THEN /\ apiKeyRows' = updateApiKey(apiKeyRows, keyPosts[q].existing,
                                          keyPosts[q].userId, keyPosts[q])
            /\ UNCHANGED nextKeyId
       ELSE /\ apiKeyRows' = createApiKey(apiKeyRows, nextKeyId, keyPosts[q])
            /\ nextKeyId' = nextKeyId + 1
    /\ keyPosts' = [keyPosts EXCEPT ![q] = [NoPost EXCEPT !.pc = "done"]]
    /\ UNCHANGED kframe
    /\ UNCHANGED pvars

\* DELETE /api/api-keys/:id
DeleteApiKey(u, id) ==
    /\ \E i \in 1..Len(apiKeyRows) : apiKeyRows[i].id = id /\ apiKeyRows[i].userId = u
    /\ apiKeyRows' = deleteApiKey(apiKeyRows, id, u)
    /\ UNCHANGED <<nextKeyId, keyPosts>>
    /\ UNCHANGED kframe
    /\ UNCHANGED pvars

InitRoutes ==
    /\ variant = "core"
    /\ eRaw = BlankProfile
    /\ eResp = Resp(NULL, GhNotFound, NULL, OrcidNotFound, NoExtResp)
    /\ ePc = "done"
    /\ eSt = StartState(BlankProfile)
    /\ eOut = BlankEnriched
    /\ eScore = NoScore
    /\ dedupeCall = NoCall
    /\ lookupCall = NoLookup
    /\ apiKeyRows = <<>>
    /\ nextKeyId = 1
    /\ keyPosts = NoPosts
    /\ apiKeys = [u \in Users |-> {}]
    /\ contacts = <<>>
    /\ nextId = 1
    /\ documents = [d \in Runs |-> NoDocument]
    /\ runs = [r \in Runs |-> IdleRun]

NextRoutes ==
    \/ \E u \in Users, body \in PostBodies : PostContact(u, body) /\ UNCHANGED evars
    \/ \E u \in Users, id \in 1..(nextId - 1), body \in PatchBodies :
          PatchContact(u, id, body) /\ UNCHANGED evars
    \/ \E u \in Users, id \in 1..(nextId - 1) : DeleteContact(u, id) /\ UNCHANGED evars
    \/ \E q \in Posts, u \in Users, body \in KeyBodies : PostApiKeyLookup(q, u, body)
    \/ \E q \in Posts : PostApiKeySave(q)
    \/ \E u \in Users, id \in 1..(nextKeyId - 1) : DeleteApiKey(u, id)

SpecRoutes == InitRoutes /\ [][NextRoutes]_vars

-----------------------------------------------------------------------------
(* enrichContact, one lookup at a time *)

\* the block of enrichContact that follows block pc
Following(v, pc) ==
    LET order == StepOrder(v)
        i == CHOOSE k \in 1..Len(order) : order[k] = pc
    IN IF i = Len(order) THEN "finish" ELSE order[i + 1]

InitEnrich ==
    /\ variant \in {"core", "ext"}
    /\ \E in \in EnrichInputs(variant) : eRaw = in[1] /\ eResp = in[2]
    /\ ePc = Head(StepOrder(variant))
    /\ eSt = StartState(eRaw)
    /\ eOut = BlankEnriched
    /\ eScore = NoScore
    /\ dedupeCall = NoCall
    /\ lookupCall = NoLookup
    /\ apiKeyRows = <<>>
    /\ nextKeyId = 1
    /\ keyPosts = NoPosts
    /\ apiKeys = [u \in {"u1"} |-> {}]
    /\ documents = [d \in Runs |-> NoDocument]
    /\ contacts = <<>>
    /\ nextId = 1
    /\ runs = [r \in Runs |-> IdleRun]

EStep(name) ==
    /\ ePc = name
    /\ eSt' = ApplyStep(name, eSt, eRaw, eResp)
    /\ ePc' = Following(variant, name)
    /\ UNCHANGED <<variant, eRaw, eResp, eOut, eScore, dedupeCall, lookupCall,
                   apiKeyRows, nextKeyId, keyPosts>>
    /\ UNCHANGED pvars

EGitHub == EStep("github")

EOrcid == EStep("orcid")

EStackExchange == EStep("stackexchange")

EWikidata == EStep("wikidata")

EDevTo == EStep("devto")

EGitLab == EStep("gitlab")

EFinish ==
    /\ ePc = "finish"
    /\ eOut' = FinishStep(eSt)
    /\ ePc' = "done"
    /\ UNCHANGED <<variant, eRaw, eResp, eSt, eScore, dedupeCall, lookupCall,
                   apiKeyRows, nextKeyId, keyPosts>>
    /\ UNCHANGED pvars

\* the confidenceScore processDocumentExtraction computes for the contact it creates
EScore ==
    /\ ePc = "done"
    /\ \E hasHf \in BOOLEAN : eScore' = [hf |-> hasHf, value |-> FinalScore(eOut, hasHf)]
    /\ ePc' = "scored"
    /\ UNCHANGED <<variant, eRaw, eResp, eSt, eOut, dedupeCall, lookupCall,
                   apiKeyRows, nextKeyId, keyPosts>>
    /\ UNCHANGED pvars

NextEnrich ==
    \/ EGitHub
    \/ EOrcid
    \/ EStackExchange
    \/ EWikidata
    \/ EDevTo
    \/ EGitLab
    \/ EFinish
    \/ EScore

SpecEnrich == InitEnrich /\ [][NextEnrich]_vars

-----------------------------------------------------------------------------
(* deduplicateContactData, one similarity request at a time *)

\* a stored contact as the function reads it
ExistingContact(id, profile) ==
    [f \in {"id"} \cup Range(TextFields) |-> IF f = "id" THEN id ELSE profile[f]]

InitDedupe ==
    /\ \E n \in 0..MaxExisting, new \in PipelineRaws :
          \E profiles \in [1..n -> PipelineRaws] :
             \E answers \in [1..n -> UNION {SimilarityAnswers(createContactText(new),
                                                               createContactText(q)) :
                                               q \in PipelineRaws}] :
                /\ \A i \in 1..n :
                      answers[i] \in SimilarityAnswers(createContactText(new),
                                                       createContactText(profiles[i]))
                /\ dedupeCall = [NoCall EXCEPT
                                   !.newData = new,
                                   !.existing = [i \in 1..n |->
                                                   ExistingContact(i, profiles[i])],
                                   !.answers = answers,
                                   !.pc = "start"]
    /\ variant = "core"
    /\ eRaw = BlankProfile
    /\ eResp = Resp(NULL, GhNotFound, NULL, OrcidNotFound, NoExtResp)
    /\ ePc = "idle"
    /\ eSt = StartState(BlankProfile)
    /\ eOut = BlankEnriched
    /\ eScore = NoScore
    /\ lookupCall = NoLookup
    /\ apiKeyRows = <<>>
    /\ nextKeyId = 1
    /\ keyPosts = NoPosts
    /\ apiKeys = [u \in {"u1"} |-> {}]
    /\ documents = [d \in Runs |-> NoDocument]
    /\ contacts = <<>>
    /\ nextId = 1
    /\ runs = [r \in Runs |-> IdleRun]

dframe == <<variant, eRaw, eResp, ePc, eSt, eOut, eScore, lookupCall,
            apiKeyRows, nextKeyId, keyPosts>>

\* the guard on an empty list, and createContactText(newData)
DStart ==
    /\ dedupeCall.pc = "start"
    /\ dedupeCall' =
          IF Len(dedupeCall.existing) = 0
          THEN [dedupeCall EXCEPT !.result = NotDuplicate, !.pc = "returned"]
          ELSE [dedupeCall EXCEPT !.pc = "loop", !.i = 1]
    /\ UNCHANGED dframe
    /\ UNCHANGED pvars

\* one contact of the loop: calculateTextSimilarity, then the threshold test
DCompare ==
    /\ dedupeCall.pc = "loop"
    /\ dedupeCall' = CompareStep(dedupeCall)
    /\ UNCHANGED dframe
    /\ UNCHANGED pvars

\* the return after the loop
DExhausted ==
    /\ dedupeCall.pc = "exhausted"
    /\ dedupeCall' = [dedupeCall EXCEPT !.result = NotDuplicate, !.pc = "returned"]
    /\ UNCHANGED dframe
    /\ UNCHANGED pvars

NextDedupe ==
    \/ DStart
    \/ DCompare
    \/ DExhausted

SpecDedupe == InitDedupe /\ [][NextDedupe]_vars

-----------------------------------------------------------------------------
(* One source lookup, one await at a time *)

RECURSIVE OutcomeSeqs(_)
\* every way the requests of kinds `kinds` can go
OutcomeSeqs(kinds) ==
    IF kinds = <<>> THEN {<<>>}
    ELSE {<<o>> \o rest : o \in RequestOutcomes(Head(kinds)), rest \in OutcomeSeqs(Tail(kinds))}

InitLookup ==
    /\ \E source \in Sources :
          \E outcomes \in OutcomeSeqs(Requests(source)) :
             lookupCall = [NoLookup EXCEPT !.source = source, !.outcomes = outcomes,
                                           !.k = 1, !.pc = "fetch"]
    /\ apiKeyRows = <<>>
    /\ nextKeyId = 1
    /\ keyPosts = NoPosts
    /\ dedupeCall = NoCall
    /\ variant = "core"
    /\ eRaw = BlankProfile
    /\ eResp = Resp(NULL, GhNotFound, NULL, OrcidNotFound, NoExtResp)
    /\ ePc = "idle"
    /\ eSt = StartState(BlankProfile)
    /\ eOut = BlankEnriched
    /\ eScore = NoScore
    /\ apiKeys = [u \in {"u1"} |-> {}]
    /\ documents = [d \in Runs |-> NoDocument]
    /\ contacts = <<>>
    /\ nextId = 1
    /\ runs = [r \in Runs |-> IdleRun]

lframe == <<variant, eRaw, eResp, ePc, eSt, eOut, eScore, dedupeCall,
            apiKeyRows, nextKeyId, keyPosts>>

LFetch ==
    /\ lookupCall.pc = "fetch"
    /\ lookupCall' = AwaitFetch(lookupCall)
    /\ UNCHANGED lframe
    /\ UNCHANGED pvars

LRead ==
    /\ lookupCall.pc = "response"
    /\ lookupCall' = ReadResponse(lookupCall)
    /\ UNCHANGED lframe
    /\ UNCHANGED pvars

\* return { source, url, verified: true, data }
LBuild ==
    /\ lookupCall.pc = "build"
    /\ lookupCall' = [lookupCall EXCEPT !.pc = "returned", !.result = "record"]
    /\ UNCHANGED lframe
    /\ UNCHANGED pvars

\* catch (error) { console.error(...); return null }
LCatch ==
    /\ lookupCall.pc = "catch"
    /\ lookupCall' = [lookupCall EXCEPT !.pc = "returned", !.result = "null"]
    /\ UNCHANGED lframe
    /\ UNCHANGED pvars

NextLookup ==
    \/ LFetch
    \/ LRead
    \/ LBuild
    \/ LCatch

SpecLookup == InitLookup /\ [][NextLookup]_vars

-----------------------------------------------------------------------------
(* Properties of processDocumentExtraction *)

Terminal == {"completed", "failed"}

StageRank(pc) ==
    CASE pc = "idle" -> 0
      [] pc = "start" -> 1
      [] pc = "extract" -> 2
      [] pc = "enrich" -> 3
      [] pc = "dedupe" -> 4
      [] pc = "getContact" -> 5
      [] pc = "updateContact" -> 6
      [] pc = "create" -> 6
      [] pc = "complete" -> 7
      [] pc = "catch" -> 7
      [] pc = "done" -> 8

\* the row of contact id among rows, as a sequence of zero or one rows
RowIn(rows, id) == SelectSeq(rows, LAMBDA c : c.id = id)

RowOf(id) == RowIn(contacts, id)

AfterExtraction == {"enrich", "getContacts", "dedupe", "getContact", "updateContact",
                    "createContact"}

\* C1: a document whose status is 'completed' or 'failed' is never changed again by
\* its run, and every step of a run moves it to a later stage, never back.
C1_StatusOnlyForward ==
    [][\A d \in Runs :
          /\ documents[d].status \in Terminal => documents'[d] = documents[d]
          /\ runs'[d].pc # runs[d].pc => StageRank(runs'[d].pc) > StageRank(runs[d].pc)]_vars

\* one run has ended 'completed' and another 'failed'
C1_Witness ==
    \E d, e \in Runs :
        /\ runs[d].pc = "done" /\ documents[d].status = "completed"
        /\ runs[e].pc = "done" /\ documents[e].status = "failed"

\* the run met a missing Gemini key or an extraction that did not yield JSON
ExtractionFailed(r) ==
    /\ StageRank(runs[r].pc) > StageRank("extract")
    /\ \/ ~HasKey(runs[r].userId, "gemini")
       \/ runs[r].extraction \in ExtractionOutcomes \ {"json"}

\* C2: without the Gemini key, or when extraction fails (an error, an empty or an
\* unparseable response), the run goes to 'failed' having made no enrichment lookup, no
\* dedup check and no contact create or update.
C2_FailedBeforeEnrichment ==
    \A r \in Runs :
        ExtractionFailed(r) =>
            /\ runs[r].pc \in {"catch", "done"}
            /\ runs[r].calls \cap AfterExtraction = {}
            /\ runs[r].created = 0 /\ runs[r].updated = 0
            /\ runs[r].pc = "done" => documents[r].status = "failed"

\* a run ended 'failed' on an empty or unparseable answer while a contact is stored
C2_Witness ==
    \E r \in Runs :
        /\ runs[r].pc = "done"
        /\ runs[r].extraction \in {"empty", "unparseable"}
        /\ documents[r].status = "failed"
        /\ Len(contacts) > 0

\* C3: when deduplicateContactData reports a duplicate with an id, the run updates the
\* matched contact, completes the document at 100 and never calls createContact.
C3_DuplicateIsMerged ==
    \A r \in Runs :
        "getContact" \in runs[r].calls =>
            /\ "createContact" \notin runs[r].calls
            /\ runs[r].pc \in {"complete", "done"} => "updateContact" \in runs[r].calls
            /\ runs[r].pc = "done" =>
                  /\ documents[r].status = "completed"
                  /\ documents[r].extractionProgress = 100

\* C4: across duplicate merges the stored sources of a contact only grow: every step
\* leaves the old array as a prefix of the new one.
C4_SourcesAppendOnly ==
    [][\A i \in 1..Len(contacts) :
          LET after == RowIn(contacts', contacts[i].id)
          IN Len(after) > 0 =>
               /\ Len(after[1].sources) >= Len(contacts[i].sources)
               /\ SubSeq(after[1].sources, 1, Len(contacts[i].sources))
                    = contacts[i].sources]_vars

\* C5: with the HuggingFace key and a similarity service that answers, a run never
\* stores a second contact next to one of the same user with the same comparison text.
C5_NoTwinContacts ==
    \A r \in Runs :
        (/\ runs[r].pc = "complete"
         /\ runs[r].created # 0
         /\ HasKey(runs[r].userId, "huggingface")
         /\ ~runs[r].simFailed) =>
            \A i, j \in 1..Len(contacts) :
                (/\ contacts[i].id = runs[r].created
                 /\ i # j
                 /\ contacts[j].userId = contacts[i].userId) =>
                    \E v \in SimilarityValues(createContactText(contacts[i]),
                                               createContactText(contacts[j])) :
                        ~OverThreshold(v)

\* C6: the merge's update stores the contact's previous sources followed by the run's.
C6_SourcesExtended ==
    [][\A r \in Runs :
          (runs[r].pc = "updateContact" /\ runs'[r].pc = "complete" /\ runs'[r].updated = 1) =>
              RowIn(contacts', runs[r].duplicateId)[1].sources
                = RowOf(runs[r].duplicateId)[1].sources \o runs[r].enrichedData.sources]_vars

\* C7: after a merge every scalar field the new run has a value for holds that value in
\* the matched contact.
C7_NewScalarsWin ==
    \A r \in Runs :
        (/\ runs[r].pc = "complete"
         /\ runs[r].updated = 1
         /\ Len(RowOf(runs[r].duplicateId)) > 0) =>
            \A f \in ScalarFields :
                runs[r].enrichedData[f] # NULL =>
                    RowOf(runs[r].duplicateId)[1][f] = runs[r].enrichedData[f]

\* C17: when the similarity request fails for every existing contact, the verdict is
\* not-duplicate, the run's next steps are createContact, which stores one more contact,
\* and the update of the document to 'completed' at 100; it never enters the merge or
\* the catch block.
C17_SimilarityFailureCreates ==
    [][\A r \in Runs :
          /\ (runs[r].pc = "dedupe" /\ runs'[r].allFailed) =>
                /\ ~runs'[r].isDuplicate
                /\ runs'[r].pc = "create"
          /\ (runs[r].allFailed /\ runs'[r].pc # runs[r].pc) =>
                \/ /\ runs[r].pc = "create" /\ runs'[r].pc = "complete"
                   /\ runs'[r].created # 0
                   /\ Len(contacts') = Len(contacts) + 1
                   /\ "createContact" \in runs'[r].calls
                \/ /\ runs[r].pc = "complete" /\ runs'[r].pc = "done"
                   /\ documents'[r].status = "completed"
                   /\ documents'[r].extractionProgress = 100
                   /\ runs'[r].calls \cap {"getContact", "updateContact"} = {}]_vars

\* the user had a contact, every similarity request failed, the run stored a second
\* contact and is about to complete
C17_Witness ==
    \E r \in Runs :
        /\ runs[r].allFailed
        /\ runs[r].pc = "complete"
        /\ runs[r].created # 0
        /\ Len(contacts) >= 2

\* C28: a run that sets its document to 'completed' has either inserted one contact or
\* updated exactly one row, never both and never neither, also while contacts are
\* being deleted.
C28_OneContactPerCompletedRun ==
    [][\A r \in Runs :
          (runs[r].pc = "complete" /\ documents'[r].status = "completed") =>
              ((runs[r].created # 0) # (runs[r].updated = 1))
      ]_vars

\* C23: a run of a user who holds the Gemini key and whose extraction returned a profile
\* never goes to the catch block for want of the GitHub or HuggingFace key: once it has
\* returned its document is 'completed', and the requests to GitHub carry an
\* Authorization header exactly when the user has a GitHub key.
C23_OptionalKeysNeverFail ==
    \A r \in Runs :
        /\ (runs[r].pc = "done" /\ runs[r].extraction = "json") =>
              documents[r].status = "completed"
        /\ runs[r].extraction = "json" => runs[r].pc # "catch"
        /\ runs[r].pc \in {"dedupe", "getContact", "updateContact", "create", "complete"} =>
              ("Authorization" \in runs[r].headers <=> HasKey(runs[r].userId, "github"))

\* a user with the Gemini key alone; the run has completed
C23_Witness ==
    \E r \in Runs :
        /\ runs[r].pc = "done"
        /\ runs[r].extraction = "json"
        /\ apiKeys[runs[r].userId] = {"gemini"}
        /\ documents[r].status = "completed"

-----------------------------------------------------------------------------
(* Properties of enrichContact *)

\* the scalars that enrichContact fills with `x = x || value`, or never writes
FillFields == ScalarFields \cup {"websiteUrl", "linkedinUrl"}

\* the scalars that enrichContact assigns from the record's own URL
RecordUrlFields == {"githubUrl", "orcidUrl"}

CollectionOrder == <<"github", "orcid", "stackoverflow", "wikidata", "devto", "gitlab">>

\* the names of the sources whose record was merged
Merged(srcs) == {srcs[i].source : i \in 1..Len(srcs)} \ {"document"}

\* what the record of one source offers for field f
Supplied(name, f, resp) ==
    CASE name = "github" ->
           IF f \in GhFields THEN resp.gh[f]
           ELSE IF f = "githubUrl" THEN resp.gh.url ELSE NULL
      [] name = "orcid" ->
           IF f \in {"name", "bio"} THEN resp.orcid[f]
           ELSE IF f = "orcidUrl" THEN OrcidCanon
           ELSE IF f \in {"company", "title"} /\ Len(resp.orcid.employments) > 0
                THEN IF f = "company" THEN resp.orcid.employments[1].organization
                     ELSE resp.orcid.employments[1].role
           ELSE NULL
      [] name = "stackoverflow" -> IF f \in NameFields THEN resp.se[f] ELSE NULL
      [] name = "wikidata" -> IF f = "name" THEN resp.wiki.name ELSE NULL
      [] name = "devto" -> IF f \in NameFields THEN resp.devto[f] ELSE NULL
      [] name = "gitlab" -> IF f \in NameFields THEN resp.gitlab[f] ELSE NULL

RECURSIVE FirstSupplied(_, _, _, _)
FirstSupplied(names, merged, f, resp) ==
    IF names = <<>> THEN NULL
    ELSE IF Head(names) \in merged /\ Supplied(Head(names), f, resp) # NULL
         THEN Supplied(Head(names), f, resp)
         ELSE FirstSupplied(Tail(names), merged, f, resp)

C9_FirstSourceWins ==
    ePc = "done" =>
        \A f \in ScalarFields \cup {"websiteUrl"} :
            eOut[f] = IF eRaw[f] # NULL THEN eRaw[f]
                      ELSE FirstSupplied(CollectionOrder, Merged(eOut.sources), f, eResp)

\* the raw company was absent, GitHub offered "B" and ORCID offered "C": the result is "B"
C9_Witness ==
    /\ ePc = "done"
    /\ eRaw.company = NULL
    /\ {"github", "orcid"} \subseteq Merged(eOut.sources)
    /\ eResp.gh.company = "B"
    /\ Supplied("orcid", "company", eResp) = "C"
    /\ eOut.company = "B"

\* the skills the merged sources offer
SourceSkills == IF "github" \in Merged(eOut.sources) THEN Range(eResp.gh.skills) ELSE {}

SourceEducation ==
    IF "orcid" \in Merged(eOut.sources) THEN Range(eResp.orcid.educations) ELSE {}

\* C11: after an ORCID record is merged the education list holds every raw and every
\* ORCID entry and no two equal entries.
C11_EducationUnion ==
    (ePc = "done" /\ "orcid" \in Merged(eOut.sources)) =>
        /\ Range(eOut.education) = Range(eRaw.education) \cup SourceEducation
        /\ NoDup(eOut.education)

\* C12: when no lookup yields a record the returned profile has every raw field as it
\* was, its sources are the document entry alone, and its only new properties are
\* sources and confidenceScore.
C12_NoRecordNoChange ==
    (ePc = "done" /\ Merged(eOut.sources) = {}) =>
        /\ \A f \in AllFields : eOut[f] = eRaw[f]
        /\ eOut.sources = <<DocumentSource>>
        /\ eOut.keys = KeysOf(eRaw) \cup {"sources", "confidenceScore"}

\* GitHub and ORCID were both asked about a profile with a name and a company, and
\* neither had a record
C12_Witness ==
    /\ ePc = "done"
    /\ Merged(eOut.sources) = {}
    /\ GitHubUsername(eRaw, eResp) # NULL /\ ~eResp.gh.found
    /\ ORCIDId(eRaw, eResp) # NULL /\ ~eResp.orcid.found
    /\ eRaw.name = "A" /\ eRaw.company = "A"
    /\ eOut.name = "A" /\ eOut.company = "A"

\* the lookup of block name is issued
Queried(name) ==
    CASE name = "github" -> GitHubUsername(eRaw, eResp) # NULL
      [] name = "orcid" -> ORCIDId(eRaw, eResp) # NULL
      [] name \in {"stackexchange", "wikidata", "devto"} -> eRaw.name # NULL
      [] name = "gitlab" -> GitHubUsername(eRaw, eResp) # NULL

\* the lookup of block name returns a record
Found(name) ==
    CASE name = "github" -> eResp.gh.found
      [] name = "orcid" -> eResp.orcid.found
      [] name = "stackexchange" -> eResp.se.found
      [] name = "wikidata" -> eResp.wiki.found
      [] name = "devto" -> eResp.devto.found
      [] name = "gitlab" -> eResp.gitlab.found

Missed(name) == Queried(name) /\ ~Found(name)

\* the blocks whose lookup was issued and returned a record
HitSteps == SelectSeq(StepOrder(variant), LAMBDA name : Queried(name) /\ Found(name))

\* enrichContact with the lookups that returned null never issued
WithoutMisses ==
    FinishStep(RunSteps(HitSteps,
                        [StartState(eRaw) EXCEPT !.githubUsername = GitHubUsername(eRaw, eResp)],
                        eRaw, eResp))

ExactIdentifier(src) ==
    CASE src = "github" -> extractGitHubUsername(eRaw.githubUrl) # NULL
      [] src = "orcid" -> extractORCIDId(eRaw.orcidUrl) # NULL
      [] OTHER -> FALSE

\* C22: in the returned sources, a GitHub, ORCID, Stack Exchange or Wikidata record is
\* verified only if its identifier was taken from a profile URL; a record found through
\* an email or name search is not verified.
C22_VerifiedOnlyIfExact ==
    ePc \in {"done", "scored"} =>
        \A i \in 1..Len(eOut.sources) :
            (/\ eOut.sources[i].source \in {"github", "orcid", "stackoverflow", "wikidata"}
             /\ eOut.sources[i].verified)
               => ExactIdentifier(eOut.sources[i].source)

-----------------------------------------------------------------------------
(* Properties of the confidence score *)

Finished == ePc \in {"done", "scored"}

\* C13: the score enrichContact returns, the score improveConfidenceScore gives for the
\* same profile and the score the pipeline stores all lie between 0 and 1 (0..ScoreMax);
\* a profile with no field and no verified source scores exactly 0.5 (ScoreBase).
C13_ScoreInUnitInterval ==
    /\ Finished =>
          /\ eOut.confidenceScore \in 0..ScoreMax
          /\ improveConfidenceScore(eOut, eOut.sources) \in 0..ScoreMax
    /\ ePc = "scored" => eScore.value \in 0..ScoreMax
    /\ (Finished /\ eRaw = BlankProfile) =>
          /\ eOut.confidenceScore = ScoreBase
          /\ calculateConfidenceScore(<<>>, eOut) = ScoreBase
          /\ improveConfidenceScore(eOut, <<>>) = ScoreBase

\* a full profile with two verified sources: the sum passes 1 and the stored score is 1
C13_Witness ==
    /\ ePc = "scored"
    /\ CountVerified(eOut.sources) = 2
    /\ \A f \in ScalarFields : eOut[f] # NULL
    /\ calculateUnclamped(eOut.sources, eOut) > ScoreMax
    /\ eOut.confidenceScore = ScoreMax
    /\ eScore.value = ScoreMax

\* C14: the score of the enriched profile, and the score stored with or without the
\* HuggingFace key, is min(1, 0.5 + 0.15 per verified source + 0.2 * covered/7 + 0.05 for
\* an email of the form local@domain.tld + 0.05 for each of githubUrl, linkedinUrl,
\* orcidUrl), and nothing else is added.
C14_ScoreFormula ==
    LET covered == Cardinality({f \in ScalarFields : eOut[f] # NULL})
        urls == Cardinality({f \in {"githubUrl", "linkedinUrl", "orcidUrl"} : eOut[f] # NULL})
        mail == IF eOut.email # NULL /\ IsValidEmail(eOut.email) THEN ScoreBonus ELSE 0
        stated == Min(ScoreBase + CountVerified(eOut.sources) * ScoreVerified
                        + covered * ScoreField + mail + urls * ScoreBonus, ScoreMax)
    IN /\ Finished => eOut.confidenceScore = stated
       /\ ePc = "scored" => eScore.value = stated

-----------------------------------------------------------------------------
(* Properties of deduplicateContactData *)

\* the similarity the service reports for existing contact i, 0 when the request fails
Sim(i) == calculateTextSimilarity(dedupeCall.answers[i])

\* C15: a contact the function asked about is reported as the duplicate exactly when its
\* similarity is strictly above 0.85, so never at 0.85 or 0, and the verdict is
\* "duplicate" exactly when some existing contact is above 0.85.
C15_StrictThreshold ==
    /\ \A k \in 1..Len(dedupeCall.asked) :
          LET i == dedupeCall.asked[k]
          IN (Sim(i) > DupThreshold) <=>
                 /\ dedupeCall.result.isDuplicate
                 /\ dedupeCall.result.duplicateId = dedupeCall.existing[i].id
    /\ dedupeCall.pc = "returned" =>
          (dedupeCall.result.isDuplicate <=>
               \E i \in 1..Len(dedupeCall.existing) : Sim(i) > DupThreshold)

\* the first contact scored exactly 0.85 and was passed over, the second scored 0.86
C15_Witness ==
    /\ dedupeCall.pc = "returned"
    /\ dedupeCall.asked = <<1, 2>>
    /\ Sim(1) = 85 /\ Sim(2) = 86
    /\ dedupeCall.result.isDuplicate
    /\ dedupeCall.result.duplicateId = dedupeCall.existing[2].id

\* C16: the reported duplicate is the first contact in list order that is above the
\* threshold, the contacts are asked about in list order, each at most once, and none
\* after the match; the pipeline's call gives the same verdict.
C16_FirstMatchWins ==
    LET c == dedupeCall
        over == {i \in 1..Len(c.existing) : Sim(i) > DupThreshold}
    IN /\ c.asked = [k \in 1..Len(c.asked) |-> k]
       /\ Len(c.asked) <= Len(c.existing)
       /\ (c.pc = "returned" /\ over # {}) =>
             LET first == CHOOSE i \in over : \A j \in over : i <= j
             IN /\ c.result.duplicateId = c.existing[first].id
                /\ c.asked = [k \in 1..first |-> k]
       /\ c.pc = "returned" =>
             LET res == deduplicateContactData(c.existing, c.answers)
             IN /\ res.isDuplicate = c.result.isDuplicate
                /\ res.duplicateId = c.result.duplicateId
                /\ res.confidence = c.result.confidence
                /\ res.asked = Len(c.asked)

\* the first contact scored 0.86 and a later one would have scored 1.0
C16_Witness ==
    /\ dedupeCall.pc = "returned"
    /\ Len(dedupeCall.existing) = 3
    /\ Sim(1) = 86 /\ Sim(3) = 100
    /\ dedupeCall.result.duplicateId = dedupeCall.existing[1].id
    /\ dedupeCall.asked = <<1>>

\* C18: a not-duplicate verdict has confidence 1.0 and no duplicateId, and on an empty
\* list it is reached without any similarity request.
C18_NotDuplicateVerdict ==
    (dedupeCall.pc = "returned" /\ ~dedupeCall.result.isDuplicate) =>
        /\ dedupeCall.result.confidence = 100
        /\ dedupeCall.result.duplicateId = 0
        /\ Len(dedupeCall.existing) = 0 => dedupeCall.asked = <<>>

\* two contacts were asked about, one scored 0.85 and one request failed
C18_Witness ==
    /\ dedupeCall.pc = "returned"
    /\ ~dedupeCall.result.isDuplicate
    /\ dedupeCall.asked = <<1, 2>>
    /\ Sim(1) = 85 /\ dedupeCall.answers[2].failed
    /\ dedupeCall.result.confidence = 100

-----------------------------------------------------------------------------
(* Properties of the source lookups *)

-----------------------------------------------------------------------------
(* Properties of processDocumentExtraction under failures *)

\* C21: a run whose source lookup never responds still ends: its document eventually
\* has status 'completed' or 'failed'.
C21_HungLookupDoesNotBlock ==
    \A r \in Runs :
        (runs[r].pc = "pending") ~> (documents[r].status \in {"completed", "failed"})

\* C25: the extractionProgress a run's document holds is one of 0, 25, 50, 75, 100, no
\* step lowers it, and the document is 'completed' exactly when it holds 100; this also
\* when storage calls reject.
C25_ProgressSteps ==
    [][\A d \in Runs :
          /\ documents'[d].extractionProgress \in {0, 25, 50, 75, 100}
          /\ documents'[d].extractionProgress >= documents[d].extractionProgress
          /\ documents'[d].status = "completed" <=> documents'[d].extractionProgress = 100
      ]_vars

\* one document completed at 100, another failed after deduplication had begun, at 75
C25_Witness ==
    \E d, e \in Runs :
        /\ documents[d].status = "completed" /\ documents[d].extractionProgress = 100
        /\ documents[e].status = "failed" /\ documents[e].extractionProgress = 75

\* C26: every started run whose awaited calls all return or raise (no lookup hangs)
\* eventually leaves its document 'completed' or 'failed'.
C26_RunsEnd ==
    \A r \in Runs :
        (runs[r].pc = "start") ~>
            (documents[r].status \in Terminal \/ runs[r].pc = "pending")

\* C27: a run that has ended with its document 'failed' has called neither createContact
\* nor updateContact.
C27_FailedTouchesNoContact ==
    \A r \in Runs :
        (runs[r].pc = "done" /\ documents[r].status = "failed") =>
            runs[r].calls \cap {"createContact", "updateContact"} = {}

-----------------------------------------------------------------------------
(* Properties of ownership *)

\* a step leaves every contact and every document of the users other than u as it was
OnlyOwn(u) ==
    /\ \A i \in 1..Len(contacts) :
          contacts[i].userId # u => RowIn(contacts', contacts[i].id) = <<contacts[i]>>
    /\ \A d \in Runs :
          documents[d].userId \notin {NULL, u} => documents'[d] = documents[d]

\* the rows of contacts that u owns
Owned(u) == {contacts[i] : i \in {j \in 1..Len(contacts) : contacts[j].userId = u}}

\* C24: a statement of a run started for user U, and PATCH or DELETE /api/contacts/:id
\* called by U, change or remove only rows that U owns; the duplicate a run settles
\* on and the row it reads for the merge are rows of U.
C24_OnlyOwnRows ==
    [][
        /\ \A r \in Runs : runs'[r] # runs[r] => OnlyOwn(runs'[r].userId)
        /\ \A r \in Runs :
              (runs[r].pc = "dedupe" /\ runs'[r].pc # "dedupe") =>
                 \/ runs'[r].duplicateId = 0
                 \/ runs'[r].duplicateId \in {c.id : c \in Owned(runs[r].userId)}
        /\ \A r \in Runs :
              (runs[r].pc = "getContact" /\ runs'[r].pc # "getContact") =>
                 \A j \in 1..Len(runs'[r].existing) :
                    runs'[r].existing[j] \in {MergeView(c) : c \in Owned(runs[r].userId)}
        /\ \A u \in Users :
              \/ OnlyOwn(u)
              \/ \A id \in 1..(nextId - 1) :
                    /\ ~DeleteContact(u, id)
                    /\ \A body \in PatchBodies : ~PatchContact(u, id, body)
    ]_vars

\* a run of u1 has merged into u1's contact while u2 holds a contact of the same person
C24_Witness ==
    \E r \in Runs :
        /\ runs[r].userId = "u1"
        /\ "updateContact" \in runs[r].calls
        /\ Len(RowOf(1)) = 1 /\ RowOf(1)[1].userId = "u1"
        /\ Len(RowOf(1)[1].sources) > 1
        /\ RowOf(2) = <<OtherSeedContact>>

\* C29: the row POST /api/contacts inserts for caller U has userId U whatever the body
\* holds, and no step changes the userId of a stored contact.
C29_OwnerIsCaller ==
    [][
        /\ \A u \in Users, body \in PostBodies :
              (PostContact(u, body) /\ nextId' # nextId) =>
                 RowIn(contacts', nextId)[1].userId = u
        /\ \A i \in 1..Len(contacts) :
              LET after == RowIn(contacts', contacts[i].id)
              IN Len(after) > 0 => after[1].userId = contacts[i].userId
    ]_vars

-----------------------------------------------------------------------------
(* Properties of the API key store *)

\* C30: no two rows of api_keys have the same userId, service and keyName.
C30_OneKeyPerService ==
    \A i, j \in 1..Len(apiKeyRows) :
        (/\ apiKeyRows[i].userId = apiKeyRows[j].userId
         /\ apiKeyRows[i].service = apiKeyRows[j].service
         /\ apiKeyRows[i].keyName = apiKeyRows[j].keyName) => i = j

====
